---- MODULE Spec2Model ----
(***************************************************************************)
(* Model of the chess-position reconstruction engine of pgnparser         *)
(* (src/pgntools/pgnboard.go): the 64-square board, the reachability      *)
(* table, the notation decoder, the origin resolver, the pin detector,    *)
(* the board mutator UpdateBoard and the serializer GetFen.               *)
(***************************************************************************)
EXTENDS Integers, Sequences, FiniteSets, TLC

VARIABLES squares, wking, bking, wkcastling, wqcastling, bkcastling,
          bqcastling, turn, move, outcome, nmoves,
          threatsWritten, boards, played, query, resolved, pinned

vars == <<squares, wking, bking, wkcastling, wqcastling, bkcastling,
          bqcastling, turn, move, outcome, nmoves,
          threatsWritten, boards, played, query, resolved, pinned>>

(***************************************************************************)
(* Bounds of the model.                                                    *)
(***************************************************************************)
\* number of UpdateBoard calls replayed on one board
MaxMoves == 4

(***************************************************************************)
(* Piece codes (pgnboard.go, const block).                                 *)
(***************************************************************************)
BKING == 0 - 6
BQUEEN == 0 - 5
BROOK == 0 - 4
BBISHOP == 0 - 3
BKNIGHT == 0 - 2
BPAWN == 0 - 1
BLANK == 0
WPAWN == 1
WKNIGHT == 2
WBISHOP == 3
WROOK == 4
WQUEEN == 5
WKING == 6

\* math.MaxInt8, the "unbounded" number of iterations of a ray
MaxInt8 == 127

\* results of the origin resolver that are not squares: -1 is the value the
\* code returns on failure; Fatal and Panic stand for the two ways the
\* process ends inside the resolver (log.Fatal, index out of range)
NoOrigin == 0 - 1
Fatal == 0 - 2
Panic == 0 - 3

(***************************************************************************)
(* Characters and the coordinate maps built by init().                     *)
(***************************************************************************)
Files == <<"a", "b", "c", "d", "e", "f", "g", "h">>
Ranks == <<"1", "2", "3", "4", "5", "6", "7", "8">>
FileChars == {Files[i] : i \in 1..8}
RankChars == {Ranks[i] : i \in 1..8}

\* literal[index]: the name of a square, as a sequence of characters
literal(index) == <<Files[(index % 8) + 1], Ranks[(index \div 8) + 1]>>

\* the keys of the map coords (and of the map threats): a column letter
\* followed by a row digit
IsSquareName(name) ==
  Len(name) = 2 /\ name[1] \in FileChars /\ name[2] \in RankChars

\* coords[name] = row*8 + column; a Go map yields the zero value for a
\* missing key
coords(name) ==
  IF IsSquareName(name)
    THEN LET column == CHOOSE c \in 0..7 : Files[c + 1] = name[1]
             row == CHOOSE r \in 0..7 : Ranks[r + 1] = name[2]
         IN  row * 8 + column
    ELSE 0

\* F applied to the value of v, which is computed once
WithValue(v, F(_)) == CHOOSE r \in {F(x) : x \in {v}} : TRUE

\* return -1 if the given piece is black and +1 otherwise
getColor(piece) == IF piece < 0 THEN 0 - 1 ELSE 1

contains(s, e) == \E i \in 1..Len(s) : s[i] = e

\* the two qualifiers (row and column) of a square, as strings
getQualifier(square) ==
  [row |-> <<Ranks[(square \div 8) + 1]>>, column |-> <<Files[(square % 8) + 1]>>]

(***************************************************************************)
(* Reachability table.                                                     *)
(***************************************************************************)
getBlackPawnThreats(target) ==
  IF target > 47 THEN <<>>
  ELSE LET ordinary == IF target >= 32 /\ target <= 39
                         THEN <<target + 8, target + 16>>
                         ELSE <<target + 8>>
           left == IF target % 8 # 0 THEN << <<target + 7>> >> ELSE <<>>
           right == IF target % 8 # 7 THEN << <<target + 9>> >> ELSE <<>>
       IN  << ordinary >> \o left \o right

\* the advance ray after the first capture ray
getWhitePawnThreats_noAdvanceFirst(target) ==
  IF target < 16 THEN <<>>
  ELSE LET ordinary == IF target >= 24 /\ target <= 31
                         THEN <<target - 8, target - 16>>
                         ELSE <<target - 8>>
           left == IF target % 8 # 0 THEN << <<target - 9>> >> ELSE <<>>
           right == IF target % 8 # 7 THEN << <<target - 7>> >> ELSE <<>>
       IN  left \o << ordinary >> \o right

getWhitePawnThreats(target) ==
  IF target < 16 THEN <<>>
  ELSE LET ordinary == IF target >= 24 /\ target <= 31
                         THEN <<target - 8, target - 16>>
                         ELSE <<target - 8>>
           left == IF target % 8 # 0 THEN << <<target - 9>> >> ELSE <<>>
           right == IF target % 8 # 7 THEN << <<target - 7>> >> ELSE <<>>
       IN  << ordinary >> \o left \o right

getKnightThreats(target) ==
  LET c == target % 8
      r == target \div 8
      opt(cond, loc) == IF cond THEN <<loc>> ELSE <<>>
  IN  << opt(c # 7 /\ r < 6, target + 17)
         \o opt(c # 0 /\ r < 6, target + 15)
         \o opt(c # 7 /\ r > 1, target - 15)
         \o opt(c # 0 /\ r > 1, target - 17)
         \o opt(c < 6 /\ r < 7, target + 10)
         \o opt(c > 1 /\ r < 7, target + 6)
         \o opt(c < 6 /\ r > 0, target - 6)
         \o opt(c > 1 /\ r > 0, target - 10) >>

\* one loop of getBishopThreats/getRookThreats: the squares loc, loc+step,
\* ... as long as the loop condition of that direction holds.  colcond is
\* "lt7" (loc%8 < 7), "gt0" (loc%8 > 0) or "any" (no column test).
RECURSIVE rayLoop(_, _, _, _, _)
rayLoop(loc, step, colcond, iteration, iterations) ==
  IF /\ (IF step < 0 THEN loc >= 0 ELSE loc < 64)
     /\ CASE colcond = "lt7" -> loc % 8 < 7
          [] colcond = "gt0" -> loc % 8 > 0
          [] OTHER -> TRUE
     /\ iteration < iterations
    THEN <<loc>> \o rayLoop(loc + step, step, colcond, iteration + 1, iterations)
    ELSE <<>>

\* a direction is appended to the locations only when it is not empty
nonEmpty(ray) == IF Len(ray) > 0 THEN <<ray>> ELSE <<>>

getBishopThreats(target, iterations) ==
  nonEmpty(rayLoop(target - 9, 0 - 9, "lt7", 0, iterations))
  \o nonEmpty(rayLoop(target - 7, 0 - 7, "gt0", 0, iterations))
  \o nonEmpty(rayLoop(target + 7, 7, "lt7", 0, iterations))
  \o nonEmpty(rayLoop(target + 9, 9, "gt0", 0, iterations))

\* the loops to the east and to the west without their test of the column
getRookThreats_anyColumn(target, iterations) ==
  nonEmpty(rayLoop(target - 8, 0 - 8, "any", 0, iterations))
  \o nonEmpty(rayLoop(target + 8, 8, "any", 0, iterations))
  \o nonEmpty(rayLoop(target - 1, 0 - 1, "any", 0, iterations))
  \o nonEmpty(rayLoop(target + 1, 1, "any", 0, iterations))

getRookThreats(target, iterations) ==
  nonEmpty(rayLoop(target - 8, 0 - 8, "any", 0, iterations))
  \o nonEmpty(rayLoop(target + 8, 8, "any", 0, iterations))
  \o nonEmpty(rayLoop(target - 1, 0 - 1, "lt7", 0, iterations))
  \o nonEmpty(rayLoop(target + 1, 1, "gt0", 0, iterations))

getQueenThreats(target) ==
  getBishopThreats(target, MaxInt8) \o getRookThreats(target, MaxInt8)

getKingThreats(target) ==
  getBishopThreats(target, 1) \o getRookThreats(target, 1)

getThreat(target, piece) ==
  CASE piece = BPAWN -> getBlackPawnThreats(target)
    [] piece = WPAWN -> getWhitePawnThreats(target)
    [] piece \in {WKNIGHT, BKNIGHT} -> getKnightThreats(target)
    [] piece \in {WBISHOP, BBISHOP} -> getBishopThreats(target, MaxInt8)
    [] piece \in {WROOK, BROOK} -> getRookThreats(target, MaxInt8)
    [] piece \in {WQUEEN, BQUEEN} -> getQueenThreats(target)
    [] piece \in {WKING, BKING} -> getKingThreats(target)

\* threats[name][piece]: the package-level table is what init() built,
\* overlaid with the entries written since (threatsWritten); a missing key
\* (a name that is no square, or the piece 0) yields a nil slice
threats(name, piece) ==
  IF <<name, piece>> \in DOMAIN threatsWritten
    THEN threatsWritten[<<name, piece>>]
    ELSE IF IsSquareName(name) /\ piece \in (BKING..WKING) \ {BLANK}
           THEN getThreat(coords(name), piece)
           ELSE <<>>

(***************************************************************************)
(* Notation decoder: the pattern reTextualMove, matched leftmost-first on  *)
(* the move text (a sequence of characters).                               *)
(*   ([PNBRQK]?)([a-h]?[1-8]?)(x?)([a-h][1-8]|[NBRQK])(\=[PNBRQK])?        *)
(*   | (O(?:-?O){1,2})[\+#]?(\s*[\!\?]+)?                                  *)
(***************************************************************************)
PieceLetters == {"P", "N", "B", "R", "Q", "K"}
TargetLetters == {"N", "B", "R", "Q", "K"}

\* the character at position i of the text, "" past its end
charAt(s, i) == IF i >= 1 /\ i <= Len(s) THEN s[i] ELSE ""

NoMatch == [ok |-> FALSE, g1 |-> <<>>, g2 |-> <<>>, g3 |-> <<>>, g4 |-> <<>>,
            g5 |-> <<>>, g6 |-> <<>>]

\* the first of two ways of matching that succeeds
OrElse(a, b) == WithValue(a, LAMBDA x : IF x.ok THEN x ELSE b)

\* The first alternative, item by item, in the order a backtracking matcher
\* tries the ways of matching: an optional item is first taken and, when
\* the rest does not match, skipped; the square name is tried before the
\* piece letter.  p is where the match starts, p1 where the piece letter
\* ends, p3 where the qualifier ends, p4 where the capture mark ends.

\* ([a-h][1-8]|[NBRQK])(\=[PNBRQK])?
matchTarget(s, p, p1, p3, p4) ==
  LET groups(p5) ==
        [ok |-> TRUE,
         g1 |-> SubSeq(s, p, p1 - 1),
         g2 |-> SubSeq(s, p1, p3 - 1),
         g3 |-> SubSeq(s, p3, p4 - 1),
         g4 |-> SubSeq(s, p4, p5 - 1),
         g5 |-> IF charAt(s, p5) = "=" /\ charAt(s, p5 + 1) \in PieceLetters
                  THEN SubSeq(s, p5, p5 + 1) ELSE <<>>,
         g6 |-> <<>>]
  IN  IF charAt(s, p4) \in FileChars /\ charAt(s, p4 + 1) \in RankChars
        THEN groups(p4 + 2)
      ELSE IF charAt(s, p4) \in TargetLetters
        THEN groups(p4 + 1)
      ELSE NoMatch

\* (x?)
matchCapture(s, p, p1, p3) ==
  IF charAt(s, p3) = "x"
    THEN OrElse(matchTarget(s, p, p1, p3, p3 + 1), matchTarget(s, p, p1, p3, p3))
    ELSE matchTarget(s, p, p1, p3, p3)

\* [1-8]? of the qualifier, which starts at p1 and has its column up to p2
matchQualifierRow(s, p, p1, p2) ==
  IF charAt(s, p2) \in RankChars
    THEN OrElse(matchCapture(s, p, p1, p2 + 1), matchCapture(s, p, p1, p2))
    ELSE matchCapture(s, p, p1, p2)

\* [a-h]? of the qualifier
matchQualifier(s, p, p1) ==
  IF charAt(s, p1) \in FileChars
    THEN OrElse(matchQualifierRow(s, p, p1, p1 + 1), matchQualifierRow(s, p, p1, p1))
    ELSE matchQualifierRow(s, p, p1, p1)

\* ([PNBRQK]?) and the rest of the first alternative at position p
matchMove(s, p) ==
  IF charAt(s, p) \in PieceLetters
    THEN OrElse(matchQualifier(s, p, p + 1), matchQualifier(s, p, p))
    ELSE matchQualifier(s, p, p)

\* one iteration of (?:-?O) at position q: the number of characters it
\* takes, 0 when it does not match
castlingStep(s, q) ==
  IF charAt(s, q) = "-" /\ charAt(s, q + 1) = "O" THEN 2
  ELSE IF charAt(s, q) = "O" THEN 1
  ELSE 0

\* the second alternative at position p
matchCastling(s, p) ==
  LET n1 == castlingStep(s, p + 1)
      n2 == castlingStep(s, p + 1 + n1)
  IN  IF charAt(s, p) = "O" /\ n1 > 0
        THEN [NoMatch EXCEPT !.ok = TRUE, !.g6 = SubSeq(s, p, p + n1 + n2)]
        ELSE NoMatch

matchAt(s, p) == OrElse(matchMove(s, p), matchCastling(s, p))

\* the match at the leftmost position, from position p on
RECURSIVE findFrom(_, _)
findFrom(s, p) ==
  IF p > Len(s) THEN NoMatch
  ELSE OrElse(matchAt(s, p), findFrom(s, p + 1))

\* reTextualMove.FindStringSubmatch
FindStringSubmatch(s) == findFrom(s, 1)

\* reTextualMove.MatchString
MatchString(s) == FindStringSubmatch(s).ok

\* getPieceIndex ends the process on any other letter (the pattern accepts
\* "P")
pieceIndexFatal(piece) ==
  Len(piece) # 0 /\ piece \notin {<<"N">>, <<"B">>, <<"R">>, <<"Q">>, <<"K">>}

getPieceIndex(piece) ==
  IF Len(piece) = 0 THEN WPAWN
  ELSE CASE piece = <<"N">> -> WKNIGHT
         [] piece = <<"B">> -> WBISHOP
         [] piece = <<"R">> -> WROOK
         [] piece = <<"Q">> -> WQUEEN
         [] piece = <<"K">> -> WKING
         [] OTHER -> 0

(***************************************************************************)
(* Pin detector.  A board b is a record with the fields of PgnBoard.       *)
(***************************************************************************)
\* the inner loop of isPinnedGeneric over one direction, from position i,
\* with the flag found
RECURSIVE pinnedInThreat(_, _, _, _, _, _, _)
pinnedInThreat(b, location, dest, attacker, threat, i, found) ==
  IF i > Len(threat) THEN FALSE
  ELSE LET square == threat[i]
       IN  IF square = location
             THEN pinnedInThreat(b, location, dest, attacker, threat, i + 1, TRUE)
           ELSE IF /\ found
                   /\ ~contains(threat, dest)
                   /\ \/ b.squares[square] = attacker
                      \/ b.squares[square] = WQUEEN * getColor(attacker)
             THEN TRUE
           ELSE IF b.squares[square] # BLANK
             THEN FALSE
           ELSE pinnedInThreat(b, location, dest, attacker, threat, i + 1, found)

isPinnedGeneric(b, location, dest, attacker, threatList) ==
  \E t \in 1..Len(threatList) :
     pinnedInThreat(b, location, dest, attacker, threatList[t], 1, FALSE)

isPinned(b, location, dest) ==
  LET black == getColor(b.squares[location]) < 0
      king == IF black THEN b.bking ELSE b.wking
      bishop == IF black THEN WBISHOP ELSE BBISHOP
      rook == IF black THEN WROOK ELSE BROOK
  IN  \/ isPinnedGeneric(b, location, dest, bishop, threats(literal(king), bishop))
      \/ isPinnedGeneric(b, location, dest, rook, threats(literal(king), rook))

(***************************************************************************)
(* Origin resolver.  The result is a square, NoOrigin (the code returns    *)
(* -1), Fatal (log.Fatal inside the resolver) or Panic (index out of       *)
(* range).                                                                 *)
(***************************************************************************)
getOriginPawn(b, piece, target, qualifier, capture) ==
  LET T == threats(target, piece)
  IN  IF capture
        THEN IF Len(T) < 2 THEN Panic
             ELSE LET first == T[2][1]
                  IN  IF getQualifier(first).column = qualifier /\ b.squares[first] = piece
                        THEN first
                      ELSE IF Len(T) > 2
                        THEN LET second == T[3][1]
                             IN  IF /\ getQualifier(second).column = qualifier
                                    /\ b.squares[second] = piece
                                   THEN second
                                   ELSE NoOrigin
                      ELSE Fatal
        ELSE IF Len(T) < 1 THEN Panic
             ELSE IF b.squares[T[1][1]] = piece THEN T[1][1]
             ELSE IF Len(T[1]) > 1 /\ b.squares[T[1][2]] = piece THEN T[1][2]
             ELSE Fatal

\* whether a location satisfies the qualifier of the move
qualifierOk(loc, qualifier) ==
  \/ Len(qualifier) = 0
  \/ /\ Len(qualifier) > 0
     /\ \/ getQualifier(loc).row = qualifier
        \/ getQualifier(loc).column = qualifier

\* the loop of getOriginKnight over the single list of knight threats
RECURSIVE knightScan(_, _, _, _, _, _)
knightScan(b, piece, target, qualifier, ray, i) ==
  IF i > Len(ray) THEN NoOrigin
  ELSE LET loc == ray[i]
       IN  IF /\ b.squares[loc] = piece
              /\ ~isPinned(b, loc, coords(target))
              /\ qualifierOk(loc, qualifier)
             THEN loc
             ELSE knightScan(b, piece, target, qualifier, ray, i + 1)

getOriginKnight(b, piece, target, qualifier, capture) ==
  LET T == threats(target, piece)
  IN  IF Len(T) < 1 THEN Panic
      ELSE knightScan(b, piece, target, qualifier, T[1], 1)

\* the inner loop of getOriginGeneric over one direction: a square, or
\* NoOrigin when the direction gives no origin
RECURSIVE directionScan(_, _, _, _, _, _)
directionScan(b, piece, target, qualifier, direction, i) ==
  IF i > Len(direction) THEN NoOrigin
  ELSE LET loc == direction[i]
       IN  IF b.squares[loc] = piece
             THEN IF isPinned(b, loc, coords(target))
                    THEN \* continue: the test that ends the direction is skipped
                         directionScan(b, piece, target, qualifier, direction, i + 1)
                  ELSE IF qualifierOk(loc, qualifier) THEN loc
                  ELSE NoOrigin   \* occupied: break
           ELSE IF b.squares[loc] # BLANK THEN NoOrigin
           ELSE directionScan(b, piece, target, qualifier, direction, i + 1)

\* the outer loop of getOriginGeneric from direction d on
RECURSIVE genericScan(_, _, _, _, _, _)
genericScan(b, piece, target, qualifier, T, d) ==
  IF d > Len(T) THEN NoOrigin
  ELSE LET r == directionScan(b, piece, target, qualifier, T[d], 1)
       IN  IF r # NoOrigin THEN r
           ELSE genericScan(b, piece, target, qualifier, T, d + 1)

getOriginGeneric(b, piece, target, qualifier, capture) ==
  genericScan(b, piece, target, qualifier, threats(target, piece), 1)

\* the branches of getOrigin: the resolver of the kind of the piece
originOfKind(b, piece, target, qualifier, capture) ==
  IF piece = WPAWN \/ piece = BPAWN
    THEN getOriginPawn(b, piece, target, qualifier, capture)
  ELSE IF piece = WKNIGHT \/ piece = BKNIGHT
    THEN getOriginKnight(b, piece, target, qualifier, capture)
  ELSE getOriginGeneric(b, piece, target, qualifier, capture)

\* getOrigin ends the process when the resolver of the kind returns a
\* negative number
getOrigin(b, piece, target, qualifier, capture) ==
  LET origin == originOfKind(b, piece, target, qualifier, capture)
  IN  IF origin = Panic THEN Panic
      ELSE IF origin < 0 THEN Fatal
      ELSE origin

(***************************************************************************)
(* Board mutator.                                                          *)
(***************************************************************************)
\* Caissa, the initial position of every chess game
InitPgnBoard ==
  [squares |-> [i \in 0..63 |->
                  CASE i \in {0, 7} -> WROOK
                    [] i \in {1, 6} -> WKNIGHT
                    [] i \in {2, 5} -> WBISHOP
                    [] i = 3 -> WQUEEN
                    [] i = 4 -> WKING
                    [] i \in 8..15 -> WPAWN
                    [] i \in 16..47 -> BLANK
                    [] i \in 48..55 -> BPAWN
                    [] i \in {56, 63} -> BROOK
                    [] i \in {57, 62} -> BKNIGHT
                    [] i \in {58, 61} -> BBISHOP
                    [] i = 59 -> BQUEEN
                    [] i = 60 -> BKING],
   wking |-> 4,
   bking |-> 60,
   wkcastling |-> TRUE, wqcastling |-> TRUE,
   bkcastling |-> TRUE, bqcastling |-> TRUE,
   turn |-> 1]

\* variant: the king is left on its home square
updateShortCastling_kingStays(b, color) ==
  IF color < 0
    THEN [b EXCEPT !.squares = [@ EXCEPT ![coords(<<"h", "8">>)] = BLANK,
                                         ![coords(<<"f", "8">>)] = BROOK,
                                         ![coords(<<"g", "8">>)] = BKING],
                   !.bking = coords(<<"g", "8">>)]
    ELSE [b EXCEPT !.squares = [@ EXCEPT ![coords(<<"h", "1">>)] = BLANK,
                                         ![coords(<<"f", "1">>)] = WROOK,
                                         ![coords(<<"g", "1">>)] = WKING],
                   !.wking = coords(<<"g", "1">>)]

updateShortCastling(b, color) ==
  IF color < 0
    THEN [b EXCEPT !.squares = [@ EXCEPT ![coords(<<"e", "8">>)] = BLANK,
                                         ![coords(<<"h", "8">>)] = BLANK,
                                         ![coords(<<"f", "8">>)] = BROOK,
                                         ![coords(<<"g", "8">>)] = BKING],
                   !.bking = coords(<<"g", "8">>)]
    ELSE [b EXCEPT !.squares = [@ EXCEPT ![coords(<<"e", "1">>)] = BLANK,
                                         ![coords(<<"h", "1">>)] = BLANK,
                                         ![coords(<<"f", "1">>)] = WROOK,
                                         ![coords(<<"g", "1">>)] = WKING],
                   !.wking = coords(<<"g", "1">>)]

\* variant: the rook is taken from b8/b1 instead of the corner
updateLongCastling_wrongCorner(b, color) ==
  IF color < 0
    THEN [b EXCEPT !.squares = [@ EXCEPT ![coords(<<"e", "8">>)] = BLANK,
                                         ![coords(<<"b", "8">>)] = BLANK,
                                         ![coords(<<"d", "8">>)] = BROOK,
                                         ![coords(<<"c", "8">>)] = BKING],
                   !.bking = coords(<<"c", "8">>)]
    ELSE [b EXCEPT !.squares = [@ EXCEPT ![coords(<<"e", "1">>)] = BLANK,
                                         ![coords(<<"b", "1">>)] = BLANK,
                                         ![coords(<<"d", "1">>)] = WROOK,
                                         ![coords(<<"c", "1">>)] = WKING],
                   !.wking = coords(<<"c", "1">>)]

updateLongCastling(b, color) ==
  IF color < 0
    THEN [b EXCEPT !.squares = [@ EXCEPT ![coords(<<"e", "8">>)] = BLANK,
                                         ![coords(<<"a", "8">>)] = BLANK,
                                         ![coords(<<"d", "8">>)] = BROOK,
                                         ![coords(<<"c", "8">>)] = BKING],
                   !.bking = coords(<<"c", "8">>)]
    ELSE [b EXCEPT !.squares = [@ EXCEPT ![coords(<<"e", "1">>)] = BLANK,
                                         ![coords(<<"a", "1">>)] = BLANK,
                                         ![coords(<<"d", "1">>)] = WROOK,
                                         ![coords(<<"c", "1">>)] = WKING],
                   !.wking = coords(<<"c", "1">>)]

\* variant: the rights are assigned from the turn instead of cleared
castlingAbility_assign(b) ==
  [b EXCEPT !.wkcastling = (b.turn # 1), !.wqcastling = (b.turn # 1),
            !.bkcastling = (b.turn # 0 - 1), !.bqcastling = (b.turn # 0 - 1)]

\* "Update castling ability" of the two castling branches of UpdateBoard:
\* the test reads board.turn, which the call has already set
castlingAbility(b) ==
  IF b.turn = 1 THEN [b EXCEPT !.wkcastling = FALSE, !.wqcastling = FALSE]
  ELSE IF b.turn = 0 - 1 THEN [b EXCEPT !.bkcastling = FALSE, !.bqcastling = FALSE]
  ELSE b

\* variant: the white test compares with the knight instead of the king
checkCastlingAbility_knight(b, matches, color, origin) ==
  LET kind == getPieceIndex(matches.g1)
      b1 == IF b.wkcastling \/ b.wqcastling
              THEN IF kind = WKNIGHT
                     THEN [b EXCEPT !.wkcastling = FALSE, !.wqcastling = FALSE]
                   ELSE IF kind = WROOK /\ origin = 63
                     THEN [b EXCEPT !.wkcastling = FALSE]
                   ELSE IF kind = WROOK /\ origin = 56
                     THEN [b EXCEPT !.wqcastling = FALSE]
                   ELSE b
              ELSE b
  IN  IF b1.bkcastling \/ b1.bqcastling
        THEN IF matches.g1 = <<"K">> /\ color < 0
               THEN [b1 EXCEPT !.bkcastling = FALSE, !.bqcastling = FALSE]
             ELSE IF kind = BROOK /\ origin = 7
               THEN [b1 EXCEPT !.bkcastling = FALSE]
             ELSE IF kind = WROOK /\ origin = 0
               THEN [b1 EXCEPT !.wqcastling = FALSE]
             ELSE b1
        ELSE b1

\* "check for the castling ability" at the end of an ordinary move
checkCastlingAbility(b, matches, color, origin) ==
  LET kind == getPieceIndex(matches.g1)
      b1 == IF b.wkcastling \/ b.wqcastling
              THEN IF kind = WKING
                     THEN [b EXCEPT !.wkcastling = FALSE, !.wqcastling = FALSE]
                   ELSE IF kind = WROOK /\ origin = 63
                     THEN [b EXCEPT !.wkcastling = FALSE]
                   ELSE IF kind = WROOK /\ origin = 56
                     THEN [b EXCEPT !.wqcastling = FALSE]
                   ELSE b
              ELSE b
  IN  IF b1.bkcastling \/ b1.bqcastling
        THEN IF matches.g1 = <<"K">> /\ color < 0
               THEN [b1 EXCEPT !.bkcastling = FALSE, !.bqcastling = FALSE]
             ELSE IF kind = BROOK /\ origin = 7
               THEN [b1 EXCEPT !.bkcastling = FALSE]
             ELSE IF kind = WROOK /\ origin = 0
               THEN [b1 EXCEPT !.wqcastling = FALSE]
             ELSE b1
        ELSE b1

\* variant: the location of the king is stored for the other colour
placePiece_otherKing(b, matches, color, origin) ==
  LET target == coords(matches.g4)
      b1 == [b EXCEPT !.squares[origin] = BLANK]
  IN  IF Len(matches.g5) > 0
        THEN [b1 EXCEPT !.squares[target] = getPieceIndex(<<matches.g5[2]>>) * color]
        ELSE LET enpassant == /\ getPieceIndex(matches.g1) = WPAWN
                              /\ matches.g3 = <<"x">>
                              /\ b1.squares[target] = BLANK
                 b2 == IF enpassant
                         THEN IF color > 0
                                THEN [b1 EXCEPT !.squares[target - 8] = BLANK]
                                ELSE [b1 EXCEPT !.squares[target + 8] = BLANK]
                         ELSE b1
                 b3 == [b2 EXCEPT !.squares[target] = getPieceIndex(matches.g1) * color]
             IN  IF matches.g1 = <<"K">>
                   THEN IF color > 0
                          THEN [b3 EXCEPT !.bking = target]
                          ELSE [b3 EXCEPT !.wking = target]
                   ELSE b3

\* the placement of the moved piece once the origin is known: promotion,
\* en passant, ordinary move, location of the king
\* variant: the pawn taken en passant is looked for ahead of the target
placePiece_behindAhead(b, matches, color, origin) ==
  LET target == coords(matches.g4)
      b1 == [b EXCEPT !.squares[origin] = BLANK]
  IN  IF Len(matches.g5) > 0
        THEN [b1 EXCEPT !.squares[target] = getPieceIndex(<<matches.g5[2]>>) * color]
        ELSE LET enpassant == /\ getPieceIndex(matches.g1) = WPAWN
                              /\ matches.g3 = <<"x">>
                              /\ b1.squares[target] = BLANK
                 b2 == IF enpassant
                         THEN IF color > 0
                                THEN [b1 EXCEPT !.squares[target + 8] = BLANK]
                                ELSE [b1 EXCEPT !.squares[target - 8] = BLANK]
                         ELSE b1
                 b3 == [b2 EXCEPT !.squares[target] = getPieceIndex(matches.g1) * color]
             IN  IF matches.g1 = <<"K">>
                   THEN IF color < 0
                          THEN [b3 EXCEPT !.bking = target]
                          ELSE [b3 EXCEPT !.wking = target]
                   ELSE b3

\* variant: a promotion leaves the moved piece itself on the target
placePiece_pawnStays(b, matches, color, origin) ==
  LET target == coords(matches.g4)
      b1 == [b EXCEPT !.squares[origin] = BLANK]
  IN  IF Len(matches.g5) > 0
        THEN [b1 EXCEPT !.squares[target] = getPieceIndex(matches.g1) * color]
        ELSE LET enpassant == /\ getPieceIndex(matches.g1) = WPAWN
                              /\ matches.g3 = <<"x">>
                              /\ b1.squares[target] = BLANK
                 b2 == IF enpassant
                         THEN IF color > 0
                                THEN [b1 EXCEPT !.squares[target - 8] = BLANK]
                                ELSE [b1 EXCEPT !.squares[target + 8] = BLANK]
                         ELSE b1
                 b3 == [b2 EXCEPT !.squares[target] = getPieceIndex(matches.g1) * color]
             IN  IF matches.g1 = <<"K">>
                   THEN IF color < 0
                          THEN [b3 EXCEPT !.bking = target]
                          ELSE [b3 EXCEPT !.wking = target]
                   ELSE b3

\* variant: the origin keeps the moved piece
placePiece_originStays(b, matches, color, origin) ==
  LET target == coords(matches.g4)
      b1 == b
  IN  IF Len(matches.g5) > 0
        THEN [b1 EXCEPT !.squares[target] = getPieceIndex(<<matches.g5[2]>>) * color]
        ELSE LET enpassant == /\ getPieceIndex(matches.g1) = WPAWN
                              /\ matches.g3 = <<"x">>
                              /\ b1.squares[target] = BLANK
                 b2 == IF enpassant
                         THEN IF color > 0
                                THEN [b1 EXCEPT !.squares[target - 8] = BLANK]
                                ELSE [b1 EXCEPT !.squares[target + 8] = BLANK]
                         ELSE b1
                 b3 == [b2 EXCEPT !.squares[target] = getPieceIndex(matches.g1) * color]
             IN  IF matches.g1 = <<"K">>
                   THEN IF color < 0
                          THEN [b3 EXCEPT !.bking = target]
                          ELSE [b3 EXCEPT !.wking = target]
                   ELSE b3

placePiece(b, matches, color, origin) ==
  LET target == coords(matches.g4)
      b1 == [b EXCEPT !.squares[origin] = BLANK]
  IN  IF Len(matches.g5) > 0
        THEN [b1 EXCEPT !.squares[target] = getPieceIndex(<<matches.g5[2]>>) * color]
        ELSE LET enpassant == /\ getPieceIndex(matches.g1) = WPAWN
                              /\ matches.g3 = <<"x">>
                              /\ b1.squares[target] = BLANK
                 b2 == IF enpassant
                         THEN IF color > 0
                                THEN [b1 EXCEPT !.squares[target - 8] = BLANK]
                                ELSE [b1 EXCEPT !.squares[target + 8] = BLANK]
                         ELSE b1
                 b3 == [b2 EXCEPT !.squares[target] = getPieceIndex(matches.g1) * color]
             IN  IF matches.g1 = <<"K">>
                   THEN IF color < 0
                          THEN [b3 EXCEPT !.bking = target]
                          ELSE [b3 EXCEPT !.wking = target]
                   ELSE b3

\* UpdateBoard once the origin is resolved
applyResolved(b0, m, matches, origin) ==
  IF origin = Panic THEN [board |-> b0, outcome |-> "panic"]
  ELSE IF origin < 0 THEN [board |-> b0, outcome |-> "fatal"]
  ELSE IF Len(matches.g5) > 0 /\ pieceIndexFatal(<<matches.g5[2]>>)
    THEN [board |-> [b0 EXCEPT !.squares[origin] = BLANK], outcome |-> "fatal"]
  ELSE [board |-> checkCastlingAbility(placePiece(b0, matches, m.color, origin),
                                       matches, m.color, origin),
        outcome |-> "ok"]

\* UpdateBoard once the text has matched: b0 is the board with the turn
\* updated, matches the groups of the match
applyMatched(b0, m, matches) ==
  IF matches.g6 = <<"O", "-", "O">>
    THEN [board |-> updateShortCastling(castlingAbility(b0), m.color),
          outcome |-> "ok"]
  ELSE IF matches.g6 = <<"O", "-", "O", "-", "O">>
    THEN [board |-> updateLongCastling(castlingAbility(b0), m.color),
          outcome |-> "ok"]
  ELSE IF pieceIndexFatal(matches.g1)
    THEN [board |-> b0, outcome |-> "fatal"]
  ELSE WithValue(getOrigin(b0, getPieceIndex(matches.g1) * m.color,
                           matches.g4, matches.g2, matches.g3 = <<"x">>),
                 LAMBDA origin : applyResolved(b0, m, matches, origin))

\* variant: the turn is negated instead of set from the colour of the move
UpdateBoard_negateTurn(b, m) ==
  WithValue(FindStringSubmatch(m.moveValue),
            LAMBDA matches :
              IF ~matches.ok
                THEN [board |-> b, outcome |-> "fatal"]
                ELSE applyMatched([b EXCEPT !.turn = (0 - 1) * b.turn], m, matches))

\* UpdateBoard(move): the board after the call and how the call ended:
\* "ok" (it returned), "fatal" (log.Fatal ended the process) or "panic"
UpdateBoard(b, m) ==
  WithValue(FindStringSubmatch(m.moveValue),
            LAMBDA matches :
              IF ~matches.ok
                THEN [board |-> b, outcome |-> "fatal"]
                ELSE applyMatched([b EXCEPT !.turn = (0 - 1) * m.color], m, matches))

(***************************************************************************)
(* Position serializer.                                                    *)
(***************************************************************************)
\* strconv.Itoa for the counts 1..8
Itoa(n) == Ranks[n]

\* variant: the black knight is written with the white knight's letter
pieceLetter_whiteKnight(square) ==
  CASE square = WPAWN -> "P"
    [] square = BPAWN -> "p"
    [] square = WKNIGHT -> "N"
    [] square = BKNIGHT -> "N"
    [] square = WBISHOP -> "B"
    [] square = BBISHOP -> "b"
    [] square = WROOK -> "R"
    [] square = BROOK -> "r"
    [] square = WQUEEN -> "Q"
    [] square = BQUEEN -> "q"
    [] square = WKING -> "K"
    [] square = BKING -> "k"
    [] OTHER -> ""

pieceLetter(square) ==
  CASE square = WPAWN -> "P"
    [] square = BPAWN -> "p"
    [] square = WKNIGHT -> "N"
    [] square = BKNIGHT -> "n"
    [] square = WBISHOP -> "B"
    [] square = BBISHOP -> "b"
    [] square = WROOK -> "R"
    [] square = BROOK -> "r"
    [] square = WQUEEN -> "Q"
    [] square = BQUEEN -> "q"
    [] square = WKING -> "K"
    [] square = BKING -> "k"
    [] OTHER -> ""

\* the inner loop of GetFen over the columns j..7 of row i, with the count
\* of empty squares seen so far; the text is held as the sequence of its
\* characters
RECURSIVE fenRow(_, _, _, _)
fenRow(b, i, j, empty) ==
  IF j > 7 THEN <<>>
  ELSE LET square == b.squares[i * 8 + j]
           e1 == IF square = BLANK THEN empty + 1 ELSE empty
           flush == e1 # 0 /\ (j = 7 \/ b.squares[i * 8 + j + 1] # BLANK)
       IN  (IF pieceLetter(square) = "" THEN <<>> ELSE <<pieceLetter(square)>>)
           \o (IF flush THEN <<Itoa(e1)>> ELSE <<>>)
           \o fenRow(b, i, j + 1, IF flush THEN 0 ELSE e1)

\* the outer loop of GetFen over the rows i..0
RECURSIVE fenRows(_, _)
fenRows(b, i) ==
  IF i < 0 THEN <<>>
  ELSE fenRow(b, i, 0, 0) \o (IF i # 0 THEN <<"/">> ELSE <<>>) \o fenRows(b, i - 1)

\* variant: the letter of the side to move is taken from the wrong sign
GetFen_wrongSide(b) ==
  fenRows(b, 7)
  \o (IF b.turn = 0 - 1 THEN <<" ", "w", " ">>
      ELSE IF b.turn = 1 THEN <<" ", "b", " ">> ELSE <<>>)
  \o (IF b.wkcastling THEN <<"K">> ELSE <<>>)
  \o (IF b.wqcastling THEN <<"Q">> ELSE <<>>)
  \o (IF b.bkcastling THEN <<"k">> ELSE <<>>)
  \o (IF b.bqcastling THEN <<"q">> ELSE <<>>)
  \o (IF ~(b.wkcastling \/ b.wqcastling \/ b.bkcastling \/ b.bqcastling)
        THEN <<"-">> ELSE <<>>)

\* variant: the queen side is written before the king side
GetFen_queenFirst(b) ==
  fenRows(b, 7)
  \o (IF b.turn = 1 THEN <<" ", "w", " ">>
      ELSE IF b.turn = 0 - 1 THEN <<" ", "b", " ">> ELSE <<>>)
  \o (IF b.wqcastling THEN <<"Q">> ELSE <<>>)
  \o (IF b.wkcastling THEN <<"K">> ELSE <<>>)
  \o (IF b.bqcastling THEN <<"q">> ELSE <<>>)
  \o (IF b.bkcastling THEN <<"k">> ELSE <<>>)
  \o (IF ~(b.wkcastling \/ b.wqcastling \/ b.bkcastling \/ b.bqcastling)
        THEN <<"-">> ELSE <<>>)

\* the FEN text of the board, as the sequence of its characters
GetFen(b) ==
  fenRows(b, 7)
  \o (IF b.turn = 1 THEN <<" ", "w", " ">>
      ELSE IF b.turn = 0 - 1 THEN <<" ", "b", " ">> ELSE <<>>)
  \o (IF b.wkcastling THEN <<"K">> ELSE <<>>)
  \o (IF b.wqcastling THEN <<"Q">> ELSE <<>>)
  \o (IF b.bkcastling THEN <<"k">> ELSE <<>>)
  \o (IF b.bqcastling THEN <<"q">> ELSE <<>>)
  \o (IF ~(b.wkcastling \/ b.wqcastling \/ b.bkcastling \/ b.bqcastling)
        THEN <<"-">> ELSE <<>>)

\* the string made of the characters
RECURSIVE Text(_)
Text(chars) == IF Len(chars) = 0 THEN "" ELSE Head(chars) \o Text(Tail(chars))

(***************************************************************************)
(* The replay of a game: one board, one UpdateBoard call per move record.  *)
(***************************************************************************)
\* the board held by the variables
Board ==
  [squares |-> squares, wking |-> wking, bking |-> bking,
   wkcastling |-> wkcastling, wqcastling |-> wqcastling,
   bkcastling |-> bkcastling, bqcastling |-> bqcastling, turn |-> turn]

\* the move texts replayed
MoveTexts ==
  { <<"e", "4">>, <<"e", "5">>, <<"N", "f", "3">>,
    <<"K", "e", "2">>, <<"K", "e", "7">>,
    <<"O", "-", "O">>, <<"O", "-", "O", "-", "O">>,
    <<"a", "4">>, <<"R", "a", "3">>, <<"h", "4">>, <<"R", "h", "3">>,
    <<"a", "5">>, <<"R", "a", "6">>, <<"h", "5">>, <<"R", "h", "6">>,
    <<"d", "6">>, <<"B", "b", "5">>, <<"B", "x", "e", "8">> }

\* the move records: color is 1 (white) or -1 (black)
MoveRecords == [color : {1, 0 - 1}, moveValue : MoveTexts]

NoMove == [color |-> 0, moveValue |-> <<>>]

\* no entry of the table was written since init()
NothingWritten == [k \in {} |-> <<>>]

\* no call of the resolver was made
NoQuery == [piece |-> BLANK, target |-> <<>>, qualifier |-> <<>>,
            capture |-> FALSE]

\* the variables a specification does not use stay as they start
Idle ==
  /\ threatsWritten = NothingWritten
  /\ boards = <<>>
  /\ played = <<>>
  /\ query = NoQuery
  /\ resolved = NoOrigin
  /\ pinned = FALSE

Init ==
  /\ Idle
  /\ squares = InitPgnBoard.squares
  /\ wking = InitPgnBoard.wking
  /\ bking = InitPgnBoard.bking
  /\ wkcastling = InitPgnBoard.wkcastling
  /\ wqcastling = InitPgnBoard.wqcastling
  /\ bkcastling = InitPgnBoard.bkcastling
  /\ bqcastling = InitPgnBoard.bqcastling
  /\ turn = InitPgnBoard.turn
  /\ move = NoMove
  /\ outcome = "init"
  /\ nmoves = 0

\* one call board.UpdateBoard(m, false); no call follows the end of the
\* process
UpdateBoardCall(m) ==
  /\ outcome \in {"init", "ok"}
  /\ nmoves < MaxMoves
  /\ \E r \in {UpdateBoard(Board, m)} :
         /\ squares' = r.board.squares
         /\ wking' = r.board.wking
         /\ bking' = r.board.bking
         /\ wkcastling' = r.board.wkcastling
         /\ wqcastling' = r.board.wqcastling
         /\ bkcastling' = r.board.bkcastling
         /\ bqcastling' = r.board.bqcastling
         /\ turn' = r.board.turn
         /\ outcome' = r.outcome
  /\ move' = m
  /\ nmoves' = nmoves + 1
  /\ UNCHANGED <<threatsWritten, boards, played, query, resolved, pinned>>

Next == \E m \in MoveRecords : UpdateBoardCall(m)

Spec == Init /\ [][Next]_vars

(***************************************************************************)
(* Two games replayed in one process: two boards, the calls of UpdateBoard *)
(* on them interleaved in any order.  The boards share the package-level   *)
(* table threats and nothing else.                                         *)
(***************************************************************************)
\* number of UpdateBoard calls on each of the two boards
MaxMovesEach == 2

TwoRecords ==
  { [color |-> 1, moveValue |-> <<"e", "4">>],
    [color |-> 0 - 1, moveValue |-> <<"e", "5">>],
    [color |-> 1, moveValue |-> <<"N", "f", "3">>],
    [color |-> 0 - 1, moveValue |-> <<"N", "c", "6">>],
    [color |-> 1, moveValue |-> <<"B", "b", "5">>],
    [color |-> 0 - 1, moveValue |-> <<"d", "6">>] }

InitTwo ==
  /\ squares = InitPgnBoard.squares
  /\ wking = InitPgnBoard.wking
  /\ bking = InitPgnBoard.bking
  /\ wkcastling = InitPgnBoard.wkcastling
  /\ wqcastling = InitPgnBoard.wqcastling
  /\ bkcastling = InitPgnBoard.bkcastling
  /\ bqcastling = InitPgnBoard.bqcastling
  /\ turn = InitPgnBoard.turn
  /\ move = NoMove
  /\ outcome = "init"
  /\ nmoves = 0
  /\ threatsWritten = NothingWritten
  /\ boards = <<InitPgnBoard, InitPgnBoard>>
  /\ played = <<(<<>>), (<<>>)>>
  /\ query = NoQuery
  /\ resolved = NoOrigin
  /\ pinned = FALSE

\* variant: the side to move is kept in one place for all the boards
UpdateBoardOf_sharedTurn(i, m) ==
  /\ outcome \in {"init", "ok"}
  /\ Len(played[i]) < MaxMovesEach
  /\ \E r \in {UpdateBoard(boards[i], m)} :
        /\ boards' = [k \in 1..2 |->
                        IF k = i THEN r.board
                        ELSE [boards[k] EXCEPT !.turn = r.board.turn]]
        /\ outcome' = r.outcome
  /\ played' = [played EXCEPT ![i] = Append(@, m)]
  /\ UNCHANGED <<squares, wking, bking, wkcastling, wqcastling, bkcastling,
                 bqcastling, turn, move, nmoves, threatsWritten, query,
                 resolved, pinned>>

\* one call boards[i].UpdateBoard(m, false): it writes the fields of its
\* own board and reads the table
UpdateBoardOf(i, m) ==
  /\ outcome \in {"init", "ok"}
  /\ Len(played[i]) < MaxMovesEach
  /\ \E r \in {UpdateBoard(boards[i], m)} :
        /\ boards' = [boards EXCEPT ![i] = r.board]
        /\ outcome' = r.outcome
  /\ played' = [played EXCEPT ![i] = Append(@, m)]
  /\ UNCHANGED <<squares, wking, bking, wkcastling, wqcastling, bkcastling,
                 bqcastling, turn, move, nmoves, threatsWritten, query,
                 resolved, pinned>>

NextTwo == \E i \in 1..2, m \in TwoRecords : UpdateBoardOf(i, m)

SpecTwo == InitTwo /\ [][NextTwo]_vars

(***************************************************************************)
(* The replay of pawn moves: advances, captures, captures en passant,      *)
(* moves with a promotion suffix and a text the pattern does not match.    *)
(***************************************************************************)
NotationTexts ==
  { <<"e", "4">>, <<"e", "5">>, <<"d", "5">>, <<"d", "4">>, <<"d", "3">>,
    <<"e", "x", "d", "5">>, <<"e", "x", "d", "6">>, <<"d", "x", "e", "3">>,
    <<"e", "3", "=", "Q">>, <<"e", "x", "d", "3", "=", "R">>,
    <<"N", "f", "3", "=", "B">>, <<"e", "3", "=", "P">>,
    <<"0", "-", "0">> }

NotationRecords == [color : {1, 0 - 1}, moveValue : NotationTexts]

NextNotation == \E m \in NotationRecords : UpdateBoardCall(m)

SpecNotation == Init /\ [][NextNotation]_vars

(***************************************************************************)
(* The origin resolver on its own: one call of the resolver of a kind on a *)
(* board drawn from a family of sparse positions.  The mover's king is on  *)
(* a1, the other king on h8; two pieces of one kind of the mover (or three *)
(* rooks) and one bishop, rook or queen of the opponent stand on the       *)
(* corner of the board around a1.                                          *)
(***************************************************************************)
\* number of files of the corner
RegionFiles == 3

Region == {f + 8 * r : f \in 0..(RegionFiles - 1), r \in 0..2}

ResolverBoard(color, kind, likes, attacker, s) ==
  [squares |-> [i \in 0..63 |->
                  IF i = 0 THEN color * WKING
                  ELSE IF i = 63 THEN (0 - color) * WKING
                  ELSE IF i \in likes THEN color * kind
                  ELSE IF i = s THEN (0 - color) * attacker
                  ELSE BLANK],
   wking |-> IF color = 1 THEN 0 ELSE 63,
   bking |-> IF color = 1 THEN 63 ELSE 0,
   wkcastling |-> FALSE, wqcastling |-> FALSE,
   bkcastling |-> FALSE, bqcastling |-> FALSE,
   turn |-> color]

\* the squares of the pieces of the kind: two of them, or three rooks
\* (bishops, rooks and queens share getOriginGeneric)
LikeSets(kind) ==
  {l \in SUBSET (Region \ {0}) :
     Cardinality(l) \in (IF kind = WROOK THEN {2, 3} ELSE {2})}

\* the boards of the family with the pieces of the kinds
ResolverInit(kinds) ==
  /\ \E color \in {1, 0 - 1}, kind \in kinds,
        attacker \in {WBISHOP, WROOK, WQUEEN} :
        \E likes \in LikeSets(kind), s \in Region \ {0} :
           /\ s \notin likes
           /\ \E b \in {ResolverBoard(color, kind, likes, attacker, s)} :
              /\ squares = b.squares
              /\ wking = b.wking
              /\ bking = b.bking
              /\ wkcastling = b.wkcastling
              /\ wqcastling = b.wqcastling
              /\ bkcastling = b.bkcastling
              /\ bqcastling = b.bqcastling
              /\ turn = b.turn
  /\ move = NoMove
  /\ outcome = "init"
  /\ nmoves = 0
  /\ Idle

InitResolve == ResolverInit({WKNIGHT, WBISHOP, WROOK, WQUEEN})

\* the pieces of the mover other than the king
MoverPieces == {i \in Region : squares[i] * turn > 0 /\ squares[i] # turn * WKING}

\* the qualifiers tried: none, or the row or the column of one of the
\* pieces
Qualifiers ==
  {<<>>} \cup UNION { {getQualifier(l).row, getQualifier(l).column} :
                       l \in MoverPieces }

\* one call of the resolver getOrigin selects for the piece
ResolveCall(piece, t, qualifier) ==
  /\ outcome = "init"
  /\ \E q \in {[piece |-> piece, target |-> literal(t),
                 qualifier |-> qualifier, capture |-> squares[t] # BLANK]} :
        /\ query' = q
        /\ resolved' = originOfKind(Board, q.piece, q.target, q.qualifier,
                                    q.capture)
  /\ outcome' = "resolved"
  /\ UNCHANGED <<squares, wking, bking, wkcastling, wqcastling, bkcastling,
                 bqcastling, turn, move, nmoves, threatsWritten, boards,
                 played, pinned>>

NextResolve ==
  \E piece \in {squares[p] : p \in MoverPieces}, t \in Region,
     qualifier \in Qualifiers :
     ResolveCall(piece, t, qualifier)

SpecResolve == InitResolve /\ [][NextResolve]_vars

(***************************************************************************)
(* The pin detector on its own: one call of isPinned for a piece of the    *)
(* mover and a destination, on the boards of the family that hold two      *)
(* knights of the mover.                                                   *)
(***************************************************************************)
InitPin == ResolverInit({WKNIGHT})

\* the destinations asked for: the corner and one file and one rank more
PinDests == {f + 8 * r : f \in 0..RegionFiles, r \in 0..3}

\* one call isPinned(location, dest); it writes nothing
PinCall(location, dest) ==
  /\ outcome = "init"
  /\ query' = [location |-> location, dest |-> dest]
  /\ pinned' = isPinned(Board, location, dest)
  /\ outcome' = "pinchecked"
  /\ UNCHANGED <<squares, wking, bking, wkcastling, wqcastling, bkcastling,
                 bqcastling, turn, move, nmoves, threatsWritten, boards,
                 played, resolved>>

NextPin == \E location \in MoverPieces, dest \in PinDests : PinCall(location, dest)

SpecPin == InitPin /\ [][NextPin]_vars

(***************************************************************************)
(* The resolver on move texts with a qualifier: the text of a queen or     *)
(* knight move is decoded by reTextualMove and its groups are given to     *)
(* the resolver, as UpdateBoard does.                                      *)
(***************************************************************************)
InitQualified == ResolverInit({WKNIGHT, WQUEEN})

\* the letter of a kind in a move text
KindLetter(kind) ==
  CASE kind = WKNIGHT -> "N"
    [] kind = WBISHOP -> "B"
    [] kind = WROOK -> "R"
    [] kind = WQUEEN -> "Q"
    [] kind = WKING -> "K"

\* the qualifiers a text can give for a piece on l: its column, its row,
\* or both
QualifiersOf(l) ==
  {getQualifier(l).column, getQualifier(l).row, literal(l)}

\* the text of a move is decoded and the resolver selects for its groups
QualifiedCall(l, qualifier, t) ==
  /\ outcome = "init"
  /\ \E text \in {<<KindLetter(turn * squares[l])>> \o qualifier \o literal(t)} :
        \E matches \in {FindStringSubmatch(text)} :
           /\ matches.ok
           /\ move' = [color |-> turn, moveValue |-> text]
           /\ \E q \in {[piece |-> getPieceIndex(matches.g1) * turn,
                          target |-> matches.g4,
                          qualifier |-> matches.g2,
                          capture |-> matches.g3 = <<"x">>]} :
                 /\ query' = q
                 /\ resolved' = originOfKind(Board, q.piece, q.target,
                                             q.qualifier, q.capture)
  /\ outcome' = "resolved"
  /\ UNCHANGED <<squares, wking, bking, wkcastling, wqcastling, bkcastling,
                 bqcastling, turn, nmoves, threatsWritten, boards, played,
                 pinned>>

NextQualified ==
  \E l \in MoverPieces, t \in Region :
     \E qualifier \in QualifiersOf(l) : QualifiedCall(l, qualifier, t)

SpecQualified == InitQualified /\ [][NextQualified]_vars

(***************************************************************************)
(* The loop of init() that fills the table threats: one iteration writes   *)
(* the entry of one square and one piece.                                  *)
(***************************************************************************)
\* threat[piece] = getThreat(row*8+column, piece), stored under the name of
\* the square
LoadThreat(row, column, piece) ==
  /\ outcome = "init"
  /\ \E name \in {<<Files[column + 1], Ranks[row + 1]>>} :
        /\ query' = [target |-> name, piece |-> piece]
        /\ threatsWritten' =
             [k \in {<<name, piece>>} |-> getThreat(row * 8 + column, piece)]
  /\ outcome' = "loaded"
  /\ UNCHANGED <<squares, wking, bking, wkcastling, wqcastling, bkcastling,
                 bqcastling, turn, move, nmoves, boards, played, resolved,
                 pinned>>

NextThreats ==
  \E row \in 0..7, column \in 0..7, piece \in (BKING..WKING) \ {BLANK} :
     LoadThreat(row, column, piece)

SpecThreats == Init /\ [][NextThreats]_vars

(***************************************************************************)
(* The pawn resolver on its own: boards with at most two pawns of the      *)
(* mover on its second to fourth rank, in the columns of the region, and   *)
(* one call for a target, a qualifier and a capture flag.                  *)
(***************************************************************************)
\* the squares of the pawns of the mover
PawnSquares(color) ==
  {f + 8 * r : f \in 0..(RegionFiles - 1),
               r \in (IF color = 1 THEN 1..3 ELSE 4..6)}

\* a board with the kings on h1 and h8 and the pawns of the mover
PawnBoard(color, pawns) ==
  [squares |-> [i \in 0..63 |->
                  IF i = 7 THEN WKING
                  ELSE IF i = 63 THEN BKING
                  ELSE IF i \in pawns THEN color * WPAWN
                  ELSE BLANK],
   wking |-> 7, bking |-> 63,
   wkcastling |-> FALSE, wqcastling |-> FALSE,
   bkcastling |-> FALSE, bqcastling |-> FALSE,
   turn |-> color]

InitPawn ==
  /\ \E color \in {1, 0 - 1} :
        \E pawns \in {l \in SUBSET PawnSquares(color) : Cardinality(l) <= 2} :
           \E b \in {PawnBoard(color, pawns)} :
              /\ squares = b.squares
              /\ wking = b.wking
              /\ bking = b.bking
              /\ wkcastling = b.wkcastling
              /\ wqcastling = b.wqcastling
              /\ bkcastling = b.bkcastling
              /\ bqcastling = b.bqcastling
              /\ turn = b.turn
  /\ move = NoMove
  /\ outcome = "init"
  /\ nmoves = 0
  /\ Idle

\* the targets asked for: the rank of the mover's pawns at the start,
\* which no pawn moves to, and the three ranks ahead of it
PawnTargets ==
  {f + 8 * r : f \in 0..(RegionFiles - 1),
               r \in (IF turn = 1 THEN 1..4 ELSE 3..6)}

\* no qualifier, or a column of the region
PawnQualifiers == {<<>>} \cup {<<Files[f + 1]>> : f \in 0..(RegionFiles - 1)}

\* one call of the resolver for a pawn of the mover
PawnCall(t, qualifier, capture) ==
  /\ outcome = "init"
  /\ \E q \in {[piece |-> turn * WPAWN, target |-> literal(t),
                 qualifier |-> qualifier, capture |-> capture]} :
        /\ query' = q
        /\ resolved' = originOfKind(Board, q.piece, q.target, q.qualifier,
                                    q.capture)
  /\ outcome' = "resolved"
  /\ UNCHANGED <<squares, wking, bking, wkcastling, wqcastling, bkcastling,
                 bqcastling, turn, move, nmoves, threatsWritten, boards,
                 played, pinned>>

NextPawn ==
  \E t \in PawnTargets, qualifier \in PawnQualifiers, capture \in BOOLEAN :
     PawnCall(t, qualifier, capture)

SpecPawn == InitPawn /\ [][NextPawn]_vars

(***************************************************************************)
(* Replay of texts at the edges of what reTextualMove accepts: pawn moves  *)
(* to ranks no pawn reaches, a target that is a piece letter, the letter   *)
(* P as piece and as promotion, castling written with and without          *)
(* hyphens.                                                                *)
(***************************************************************************)
AcceptedTexts ==
  { <<"e", "4">>, <<"e", "5">>, <<"N", "f", "3">>, <<"N", "c", "6">>,
    <<"e", "2">>, <<"e", "7">>, <<"e", "x", "d", "1">>,
    <<"N">>, <<"N", "B">>, <<"Q", "R">>,
    <<"P", "e", "4">>, <<"e", "3", "=", "P">>, <<"e", "3", "=", "Q">>,
    <<"O", "-", "O">>, <<"O", "-", "O", "-", "O">>,
    <<"O", "O">>, <<"O", "O", "O">> }

AcceptedRecords == [color : {1, 0 - 1}, moveValue : AcceptedTexts]

NextAccepted == \E m \in AcceptedRecords : UpdateBoardCall(m)

SpecAccepted == Init /\ [][NextAccepted]_vars

(***************************************************************************)
(* Vocabulary of the properties.                                           *)
(***************************************************************************)
\* the groups of a move record's text
Groups(m) == FindStringSubmatch(m.moveValue)

IsShortCastling(m) == Groups(m).g6 = <<"O", "-", "O">>
IsLongCastling(m) == Groups(m).g6 = <<"O", "-", "O", "-", "O">>
IsCastling(m) == IsShortCastling(m) \/ IsLongCastling(m)

\* the step is a call of UpdateBoard that returned
Applied == outcome' = "ok"

\* the origin the resolver gives for move record m on the current board
ResolvedOrigin(m) ==
  getOrigin(Board, getPieceIndex(Groups(m).g1) * m.color, Groups(m).g4,
            Groups(m).g2, Groups(m).g3 = <<"x">>)

\* the name of a square as an index
Sq(file, rank) == coords(<<file, rank>>)

\* number of squares of sq holding the piece
Count(sq, piece) == Cardinality({i \in 0..63 : sq[i] = piece})

\* number of pieces of a colour (1 or -1) on sq
Pieces(sq, color) == Cardinality({i \in 0..63 : sq[i] * color > 0})

WhiteRightsUnchanged == wkcastling' = wkcastling /\ wqcastling' = wqcastling
BlackRightsUnchanged == bkcastling' = bkcastling /\ bqcastling' = bqcastling

(***************************************************************************)
(* C1 .. C10                                                               *)
(***************************************************************************)
\* C1: the board returned by InitPgnBoard serializes with GetFen to exactly
\* "rnbqkbnr/pppppppp/8/8/8/8/PPPPPPPP/RNBQKBNR w KQkq".
C1_InitialFen ==
  outcome = "init" =>
    Text(GetFen(Board)) = "rnbqkbnr/pppppppp/8/8/8/8/PPPPPPPP/RNBQKBNR w KQkq"

C1_Witness ==
  outcome = "init" /\ nmoves = 0 /\ squares[4] = WKING /\ squares[60] = BKING

\* C2: when a side castles, both castling rights of the side that castled
\* become false and both rights of the other side keep their value.
C2_CastlingClearsOwnRights ==
  [][(Applied /\ IsCastling(move')) =>
       IF move'.color = 1
         THEN ~wkcastling' /\ ~wqcastling' /\ BlackRightsUnchanged
         ELSE ~bkcastling' /\ ~bqcastling' /\ WhiteRightsUnchanged]_vars

\* C3: after a non-castling king move of colour c, both castling rights of
\* c are false and both rights of the other colour are unchanged.
C3_KingMoveClearsOwnRights ==
  [][(Applied /\ Groups(move').g1 = <<"K">>) =>
       IF move'.color = 1
         THEN ~wkcastling' /\ ~wqcastling' /\ BlackRightsUnchanged
         ELSE ~bkcastling' /\ ~bqcastling' /\ WhiteRightsUnchanged]_vars

\* C4: a rook move whose resolved origin is a home corner revokes exactly
\* the right of that corner (a1: white queenside, h1: white kingside, a8:
\* black queenside, h8: black kingside) and leaves the other three as they
\* were.
C4_RookCornerRevokesItsRight ==
  [][(/\ Applied
      /\ Groups(move').g1 = <<"R">>
      /\ ResolvedOrigin(move') \in {Sq("a", "1"), Sq("h", "1"), Sq("a", "8"), Sq("h", "8")}) =>
       LET origin == ResolvedOrigin(move')
       IN  /\ wqcastling' = (wqcastling /\ origin # Sq("a", "1"))
           /\ wkcastling' = (wkcastling /\ origin # Sq("h", "1"))
           /\ bqcastling' = (bqcastling /\ origin # Sq("a", "8"))
           /\ bkcastling' = (bkcastling /\ origin # Sq("h", "8"))]_vars

\* C5: over any sequence of UpdateBoard calls, none of the four castling
\* rights ever changes from false to true.
C5_RightsNeverRegranted ==
  [][/\ wkcastling' => wkcastling
     /\ wqcastling' => wqcastling
     /\ bkcastling' => bkcastling
     /\ bqcastling' => bqcastling]_vars

\* some rights are lost and others are kept after at least two applied moves
C5_Witness ==
  /\ outcome = "ok" /\ nmoves >= 2
  /\ ~wkcastling /\ ~wqcastling /\ bkcastling /\ bqcastling

\* the squares after e4, e5, Nf3 from the initial position
AfterE4E5Nf3 ==
  [InitPgnBoard.squares EXCEPT ![Sq("e", "2")] = BLANK, ![Sq("e", "4")] = WPAWN,
                               ![Sq("e", "7")] = BLANK, ![Sq("e", "5")] = BPAWN,
                               ![Sq("g", "1")] = BLANK, ![Sq("f", "3")] = WKNIGHT]

\* C6: an applied move that is not castling and whose moved piece is neither
\* a king nor a rook leaves all four castling rights unchanged; replaying
\* e4, e5, Nf3 from the initial position ends with side to move b and the
\* rights KQkq.
C6_OtherMovesKeepRights ==
  [][/\ (Applied /\ ~IsCastling(move') /\ Groups(move').g1 \notin {<<"K">>, <<"R">>})
          => (WhiteRightsUnchanged /\ BlackRightsUnchanged)
     /\ (/\ Applied /\ nmoves' = 3 /\ squares' = AfterE4E5Nf3
         /\ move' = [color |-> 1, moveValue |-> <<"N", "f", "3">>])
          => /\ turn' = 0 - 1
             /\ wkcastling' /\ wqcastling' /\ bkcastling' /\ bqcastling']_vars

C6_Witness ==
  /\ outcome = "ok" /\ nmoves = 3 /\ squares = AfterE4E5Nf3
  /\ move = [color |-> 1, moveValue |-> <<"N", "f", "3">>]

\* C7 as stated: every applied move flips the side to move, whatever the
\* colours of the move records.
C7_TurnFlips ==
  [][Applied => turn' = 0 - turn]_vars

\* C7 amended: after an applied move the side to move is the opponent of
\* the colour of the move record; it is the negation of its former value
\* exactly when the record's colour is the side that was to move.
C7_TurnIsOpponentOfMover ==
  [][Applied => /\ turn' = 0 - move'.color
                /\ (turn' = 0 - turn) <=> (move'.color = turn)]_vars

\* two records of colour 1 were applied in a row: no black piece has moved
C7_Witness ==
  /\ outcome = "ok" /\ nmoves = 2 /\ move.color = 1 /\ turn = 0 - 1
  /\ \A i \in 48..63 : squares[i] = InitPgnBoard.squares[i]
  /\ Count(squares, WPAWN) = 8 /\ squares[Sq("a", "4")] = WPAWN
  /\ squares[Sq("a", "3")] = WROOK

\* each colour has at most 16 pieces and exactly one king
CountsOk(sq) ==
  /\ Pieces(sq, 1) <= 16 /\ Pieces(sq, 0 - 1) <= 16
  /\ Count(sq, WKING) = 1 /\ Count(sq, BKING) = 1

PawnsNotMore ==
  /\ Count(squares', WPAWN) <= Count(squares, WPAWN)
  /\ Count(squares', BPAWN) <= Count(squares, BPAWN)

\* the row of the castling squares of a colour
HomeRank(color) == IF color < 0 THEN "8" ELSE "1"

\* the squares a castling of the colour writes
CastlingSquares(m) ==
  IF IsShortCastling(m)
    THEN {Sq(f, HomeRank(m.color)) : f \in {"e", "f", "g", "h"}}
    ELSE {Sq(f, HomeRank(m.color)) : f \in {"e", "d", "c", "a"}}

\* the move is an en passant capture on the current board
IsEnPassant(m) ==
  /\ getPieceIndex(Groups(m).g1) = WPAWN
  /\ Groups(m).g3 = <<"x">>
  /\ Len(Groups(m).g5) = 0
  /\ squares[coords(Groups(m).g4)] = BLANK

\* the squares, other than the origin, that an applied non-castling move
\* writes: the target and the square of the pawn taken en passant
WrittenSquares(m) ==
  {coords(Groups(m).g4)}
  \cup (IF IsEnPassant(m)
          THEN {coords(Groups(m).g4) - 8 * m.color}
          ELSE {})

\* The move record removes no king from the current board: a castling
\* writes no square that holds the king of the other colour; any other
\* move writes no square that holds a king, and a move with a promotion
\* suffix is not a king move.
KeepsKings(m) ==
  IF IsCastling(m)
    THEN \A s \in CastlingSquares(m) : squares[s] # (0 - WKING) * m.color
    ELSE /\ \A s \in WrittenSquares(m) : squares[s] \notin {WKING, BKING}
         /\ Len(Groups(m).g5) > 0 => Groups(m).g1 # <<"K">>

\* The move record creates no piece on the current board: a castling finds
\* the king and the rook of its colour on their home squares and the two
\* squares they go to empty; a promotion is not to a king.
CreatesNothing(m) ==
  IF IsCastling(m)
    THEN LET r == HomeRank(m.color)
         IN  /\ squares[Sq("e", r)] = WKING * m.color
             /\ IF IsShortCastling(m)
                  THEN /\ squares[Sq("h", r)] = WROOK * m.color
                       /\ squares[Sq("f", r)] = BLANK
                       /\ squares[Sq("g", r)] = BLANK
                  ELSE /\ squares[Sq("a", r)] = WROOK * m.color
                       /\ squares[Sq("d", r)] = BLANK
                       /\ squares[Sq("c", r)] = BLANK
    ELSE Len(Groups(m).g5) > 0 => Groups(m).g5 # <<"=", "K">>

\* C8 as stated: after every applied move each colour has at most 16
\* pieces and exactly one king, and no colour has more pawns than before.
C8_PieceCountsAlways ==
  [][Applied => (CountsOk(squares') /\ PawnsNotMore)]_vars

\* C8 amended: after every applied move no colour has more pawns than
\* before; and each colour still has at most 16 pieces and exactly one king
\* when that held before the move and the move removes no king and creates
\* no piece (see KeepsKings and CreatesNothing).
C8_PieceCountsPreserved ==
  [][Applied =>
       /\ PawnsNotMore
       /\ (CountsOk(squares) /\ KeepsKings(move') /\ CreatesNothing(move'))
            => CountsOk(squares')]_vars

\* white has castled short after e4, Nf3 and Bb5
C8_Witness ==
  /\ outcome = "ok" /\ nmoves = 4
  /\ move = [color |-> 1, moveValue |-> <<"O", "-", "O">>]
  /\ squares[Sq("g", "1")] = WKING /\ squares[Sq("f", "1")] = WROOK
  /\ squares[Sq("b", "5")] = WBISHOP /\ squares[Sq("f", "3")] = WKNIGHT
  /\ CountsOk(squares) /\ Pieces(squares, 1) = 16

KingCacheOk(sq, wk, bk) == sq[wk] = WKING /\ sq[bk] = BKING

\* C9 as stated: after every applied move squares[wking] holds the white
\* king and squares[bking] holds the black king.
C9_KingCacheAlways ==
  [][Applied => KingCacheOk(squares', wking', bking')]_vars

\* C9 amended: after an applied move squares[wking] holds the white king
\* and squares[bking] holds the black king when that held before the move
\* and the move removes no king (see KeepsKings).
C9_KingCachePreserved ==
  [][(Applied /\ KingCacheOk(squares, wking, bking) /\ KeepsKings(move'))
       => KingCacheOk(squares', wking', bking')]_vars

\* both kings have made an ordinary move
C9_Witness ==
  /\ outcome = "ok"
  /\ move = [color |-> 0 - 1, moveValue |-> <<"K", "e", "7">>]
  /\ wking = Sq("e", "2") /\ bking = Sq("e", "7")
  /\ KingCacheOk(squares, wking, bking)

\* C10: castling puts the king and the rook of the castling colour on the
\* fixed squares (kingside: king g, rook f, e and h empty; queenside: king
\* c, rook d, e and a empty, on row 1 for white and row 8 for black), sets
\* the king location of that colour to the king's new square and changes
\* no other square.
C10_CastlingRelocation ==
  [][(Applied /\ IsCastling(move')) =>
       LET r == HomeRank(move'.color)
           c == move'.color
           kingTo == IF IsShortCastling(move') THEN Sq("g", r) ELSE Sq("c", r)
           rookTo == IF IsShortCastling(move') THEN Sq("f", r) ELSE Sq("d", r)
           corner == IF IsShortCastling(move') THEN Sq("h", r) ELSE Sq("a", r)
       IN  /\ squares'[kingTo] = WKING * c
           /\ squares'[rookTo] = WROOK * c
           /\ squares'[Sq("e", r)] = BLANK
           /\ squares'[corner] = BLANK
           /\ \A i \in (0..63) \ {kingTo, rookTo, corner, Sq("e", r)} :
                squares'[i] = squares[i]
           /\ IF c < 0 THEN bking' = kingTo ELSE wking' = kingTo]_vars

\* black has castled long and white short
C10_Witness ==
  /\ outcome = "ok"
  /\ move = [color |-> 0 - 1, moveValue |-> <<"O", "-", "O", "-", "O">>]
  /\ squares[Sq("c", "8")] = BKING /\ squares[Sq("d", "8")] = BROOK
  /\ bking = Sq("c", "8")
  /\ squares[Sq("g", "1")] = WKING /\ wking = Sq("g", "1")

(***************************************************************************)
(* Geometry of the board, stated without the reachability table.           *)
(***************************************************************************)
Abs(x) == IF x < 0 THEN 0 - x ELSE x
fileOf(i) == i % 8
rankOf(i) == i \div 8

\* two distinct squares of one rank or one file
Straight(a, c) == a # c /\ (fileOf(a) = fileOf(c) \/ rankOf(a) = rankOf(c))

\* two distinct squares of one diagonal
Diagonal(a, c) == a # c /\ Abs(fileOf(a) - fileOf(c)) = Abs(rankOf(a) - rankOf(c))

\* x lies strictly between lo and hi, in either order
Inside(x, lo, hi) == (lo < x /\ x < hi) \/ (hi < x /\ x < lo)

\* the squares strictly between two squares of one line
Between(a, c) ==
  {x \in 0..63 :
     \/ /\ rankOf(a) = rankOf(c) /\ rankOf(x) = rankOf(a)
        /\ Inside(fileOf(x), fileOf(a), fileOf(c))
     \/ /\ fileOf(a) = fileOf(c) /\ fileOf(x) = fileOf(a)
        /\ Inside(rankOf(x), rankOf(a), rankOf(c))
     \/ /\ Diagonal(a, c) /\ Diagonal(a, x) /\ Diagonal(x, c)
        /\ Inside(fileOf(x), fileOf(a), fileOf(c))
        /\ Inside(rankOf(x), rankOf(a), rankOf(c))}

\* a piece of the kind on square from moves to square to on the board sq
CanReach(sq, kind, from, to) ==
  \/ /\ kind = WKNIGHT
     /\ {Abs(fileOf(from) - fileOf(to)), Abs(rankOf(from) - rankOf(to))} = {1, 2}
  \/ /\ kind \in {WBISHOP, WQUEEN}
     /\ Diagonal(from, to)
     /\ \A x \in Between(from, to) : sq[x] = BLANK
  \/ /\ kind \in {WROOK, WQUEEN}
     /\ Straight(from, to)
     /\ \A x \in Between(from, to) : sq[x] = BLANK

\* the piece on loc shields its own king from a bishop, rook or queen of
\* the other colour, and moving it to dest opens the line
PinnedOnLine(sq, king, loc, dest) ==
  \E s \in 0..63 :
     /\ sq[s] * sq[loc] < 0
     /\ \/ Straight(king, s) /\ Abs(sq[s]) \in {WROOK, WQUEEN}
        \/ Diagonal(king, s) /\ Abs(sq[s]) \in {WBISHOP, WQUEEN}
     /\ loc \in Between(king, s)
     /\ \A x \in Between(king, s) \ {loc} : sq[x] = BLANK
     /\ dest \notin Between(king, s) \cup {s}

\* the king of the mover
MoverKing == IF turn = 1 THEN wking ELSE bking

\* the call of the resolver was made
Resolved == outcome = "resolved"

\* the pieces of the kind asked for that can move to the target
Reachers ==
  {p \in MoverPieces :
     /\ squares[p] = query.piece
     /\ CanReach(squares, Abs(query.piece), p, coords(query.target))}

PinnedReachers ==
  {p \in Reachers : PinnedOnLine(squares, MoverKing, p, coords(query.target))}

\* C11: when exactly two pieces of the kind can reach the target and
\* exactly one of them is pinned against its own king, the call without a
\* qualifier gives the square of the unpinned piece.
C11_UnpinnedChosen ==
  (/\ Resolved
   /\ query.qualifier = <<>>
   /\ Cardinality(Reachers) = 2
   /\ Cardinality(PinnedReachers) = 1)
  => resolved \in Reachers \ PinnedReachers

\* the qualifier of the call names the row or the column of the square
QualifierNames(p) ==
  \/ query.qualifier = <<Ranks[rankOf(p) + 1]>>
  \/ query.qualifier = <<Files[fileOf(p) + 1]>>

\* C12: when two pieces of the kind can reach the target, one of them
\* pinned, and the qualifier names only the pinned one, the resolver
\* gives NoOrigin.
C12_QualifierOfPinnedFails ==
  (/\ Resolved
   /\ Len(query.qualifier) > 0
   /\ Cardinality(Reachers) = 2
   /\ Cardinality(PinnedReachers) = 1
   /\ \A p \in Reachers : QualifierNames(p) <=> p \in PinnedReachers)
  => resolved = NoOrigin

\* the pieces left by the pin filter and the qualifier filter
Survivors ==
  {p \in Reachers \ PinnedReachers :
     Len(query.qualifier) = 0 \/ QualifierNames(p)}

\* C13: when more than one piece is left by the pin filter and the
\* qualifier filter, the resolver gives no square.
C13_AmbiguityReported ==
  (Resolved /\ Cardinality(Survivors) > 1) => resolved \notin 0..63

(***************************************************************************)
(* Failures and pawn moves of UpdateBoard.                                 *)
(***************************************************************************)
\* the step is a call of UpdateBoard
Called == nmoves' = nmoves + 1

\* the text of the move record is not decodable, or no origin is found
\* for it on the current board
FailsToApply(m) ==
  \/ ~MatchString(m.moveValue)
  \/ /\ ~IsCastling(m)
     /\ ~pieceIndexFatal(Groups(m).g1)
     /\ ResolvedOrigin(m) < 0

\* C14: a call for a move that is not decodable or has no origin does not
\* end the process.
C14_FailureIsRecoverable ==
  [][(Called /\ FailsToApply(move')) => outcome' \notin {"fatal", "panic"}]_vars

\* C15: a call for a move that is not decodable or has no origin leaves
\* the squares, the king locations, the castling rights and the turn as
\* they were.
C15_FailureLeavesBoard ==
  [][(Called /\ FailsToApply(move'))
       => UNCHANGED <<squares, wking, bking, wkcastling, wqcastling,
                      bkcastling, bqcastling, turn>>]_vars

\* the move record is a pawn capture
IsPawnCapture(m) == Groups(m).g1 = <<>> /\ Groups(m).g3 = <<"x">>

\* the squares after a capture en passant by move record m
AfterEnPassant(m) ==
  [i \in 0..63 |->
     IF i = coords(Groups(m).g4) THEN m.color * WPAWN
     ELSE IF i = ResolvedOrigin(m) \/ i = coords(Groups(m).g4) - 8 * m.color
       THEN BLANK
     ELSE squares[i]]

\* C16 as stated: every applied pawn capture on an empty target empties
\* the square behind the target and the origin, leaves the pawn on the
\* target and changes no other square.
C16_EnPassantAlways ==
  [][(/\ Applied
      /\ IsPawnCapture(move')
      /\ squares[coords(Groups(move').g4)] = BLANK)
       => squares' = AfterEnPassant(move')]_vars

\* C16 amended: the same for pawn captures without a promotion suffix.
C16_EnPassant ==
  [][(Applied /\ IsEnPassant(move')) => squares' = AfterEnPassant(move')]_vars

\* 1. e4 .. 2. e5 d5 3. exd6 was replayed
C16_Witness ==
  /\ outcome = "ok"
  /\ move = [color |-> 1, moveValue |-> <<"e", "x", "d", "6">>]
  /\ squares[Sq("d", "6")] = WPAWN
  /\ squares[Sq("d", "5")] = BLANK
  /\ squares[Sq("d", "7")] = BLANK
  /\ squares[Sq("e", "5")] = BLANK
  /\ squares[Sq("e", "2")] = BLANK

\* the move record has a promotion suffix
IsPromotion(m) == Len(Groups(m).g5) > 0

\* the piece named by the promotion suffix, in the colour of the mover
Promoted(m) == getPieceIndex(<<Groups(m).g5[2]>>) * m.color

\* the mover has one pawn less after the step
OnePawnLess(m) ==
  Count(squares', m.color * WPAWN) = Count(squares, m.color * WPAWN) - 1

\* C17 as stated: after an applied move with a promotion suffix the target
\* holds the promoted piece in the mover's colour and not the pawn, the
\* origin is empty and the mover has one pawn less.
C17_PromotionAlways ==
  [][(Applied /\ IsPromotion(move'))
       => /\ squares'[coords(Groups(move').g4)] = Promoted(move')
          /\ squares'[coords(Groups(move').g4)] # move'.color * WPAWN
          /\ squares'[ResolvedOrigin(move')] = BLANK
          /\ OnePawnLess(move')]_vars

\* C17 amended: the pawn count is claimed only when the moved piece is a
\* pawn and the target held no pawn of the mover.
C17_Promotion ==
  [][(Applied /\ IsPromotion(move'))
       => /\ squares'[coords(Groups(move').g4)] = Promoted(move')
          /\ squares'[coords(Groups(move').g4)] # move'.color * WPAWN
          /\ squares'[ResolvedOrigin(move')] = BLANK
          /\ (/\ Groups(move').g1 = <<>>
              /\ squares[coords(Groups(move').g4)] # move'.color * WPAWN)
             => OnePawnLess(move')]_vars

\* 1. e3=Q was replayed on the initial position
C17_Witness ==
  /\ outcome = "ok"
  /\ nmoves = 1
  /\ move = [color |-> 1, moveValue |-> <<"e", "3", "=", "Q">>]
  /\ squares[Sq("e", "3")] = WQUEEN
  /\ squares[Sq("e", "2")] = BLANK
  /\ Count(squares, WPAWN) = 7

(***************************************************************************)
(* Reading a FEN text back.                                                *)
(***************************************************************************)
\* the characters before the first space: the placement field
Placement(chars) ==
  LET spaces == {i \in 1..Len(chars) : chars[i] = " "}
  IN  IF spaces = {} THEN chars
      ELSE SubSeq(chars, 1, (CHOOSE i \in spaces : \A j \in spaces : i <= j) - 1)

\* the fields of a text separated by "/"
Fields(chars) ==
  LET slashes == {i \in 1..Len(chars) : chars[i] = "/"}
      \* the position before the k-th field and the position after it
      before(k) == IF k = 1 THEN 0
                   ELSE CHOOSE i \in slashes :
                          Cardinality({j \in slashes : j < i}) = k - 2
      after(k) == IF k = Cardinality(slashes) + 1 THEN Len(chars) + 1
                  ELSE CHOOSE i \in slashes :
                         Cardinality({j \in slashes : j < i}) = k - 1
  IN  [k \in 1..(Cardinality(slashes) + 1) |->
         SubSeq(chars, before(k) + 1, after(k) - 1)]

\* the number a digit stands for
DigitValue(c) == CHOOSE n \in 1..8 : Ranks[n] = c

\* the piece a FEN letter stands for: uppercase white, lowercase black;
\* 99 for any other character
LetterPiece(c) ==
  CASE c = "P" -> WPAWN   [] c = "p" -> BPAWN
    [] c = "N" -> WKNIGHT [] c = "n" -> BKNIGHT
    [] c = "B" -> WBISHOP [] c = "b" -> BBISHOP
    [] c = "R" -> WROOK   [] c = "r" -> BROOK
    [] c = "Q" -> WQUEEN  [] c = "q" -> BQUEEN
    [] c = "K" -> WKING   [] c = "k" -> BKING
    [] OTHER -> 99

\* the squares a rank field stands for, left to right
RECURSIVE Expand(_)
Expand(field) ==
  IF Len(field) = 0 THEN <<>>
  ELSE (IF Head(field) \in RankChars
          THEN [n \in 1..DigitValue(Head(field)) |-> BLANK]
          ELSE <<LetterPiece(Head(field))>>)
       \o Expand(Tail(field))

NoAdjacentDigits(field) ==
  \A k \in 1..(Len(field) - 1) :
     ~(field[k] \in RankChars /\ field[k + 1] \in RankChars)

\* the field is the rank of the board, with every run of empty squares
\* written as one digit
FieldIsRank(field, rank) ==
  /\ NoAdjacentDigits(field)
  /\ Expand(field) = [n \in 1..8 |-> squares[rank * 8 + n - 1]]

\* C18: the placement field of GetFen has eight fields separated by "/",
\* rank 8 first; each stands for exactly the 8 squares of its rank, left
\* to right, and no two digits are adjacent.
C18_PlacementReadsBack ==
  \E fields \in {Fields(Placement(GetFen(Board)))} :
     /\ Len(fields) = 8
     /\ \A k \in 1..8 : FieldIsRank(fields[k], 8 - k)

\* the board after 1. e4 serializes with runs of empty squares inside
\* the ranks
C18_Witness ==
  /\ outcome = "ok"
  /\ Text(GetFen(Board)) = "rnbqkbnr/pppppppp/8/8/4P3/8/PPPP1PPP/RNBQKBNR b KQkq"

\* the letters of the castling rights that are true, or "-"
RightsLetters ==
  IF ~(wkcastling \/ wqcastling \/ bkcastling \/ bqcastling) THEN <<"-">>
  ELSE SelectSeq(<<"K", "Q", "k", "q">>,
                 LAMBDA c : \/ c = "K" /\ wkcastling
                            \/ c = "Q" /\ wqcastling
                            \/ c = "k" /\ bkcastling
                            \/ c = "q" /\ bqcastling)

\* C19: on every board reached by applying moves, the text of GetFen ends
\* with a space, the side to move, a space and the letters of the rights
\* that are true in the order K, Q, k, q, or "-" when none is.
C19_SideAndRights ==
  outcome \in {"init", "ok"} =>
    \E chars \in {GetFen(Board)} :
       SubSeq(chars, Len(Placement(chars)) + 1, Len(chars))
         = <<" ", (IF turn = 1 THEN "w" ELSE "b"), " ">> \o RightsLetters

\* some rights were lost and some remain
C19_Witness ==
  /\ outcome = "ok"
  /\ wkcastling /\ wqcastling
  /\ ~bkcastling /\ ~bqcastling
  /\ turn = 0 - 1

(***************************************************************************)
(* Two boards in one process.                                              *)
(***************************************************************************)
\* the board after the move records are replayed alone, in order, on the
\* initial position
RECURSIVE Replay(_, _)
Replay(b, ms) ==
  IF Len(ms) = 0 THEN b
  ELSE WithValue(UpdateBoard(b, Head(ms)).board,
                 LAMBDA nb : Replay(nb, Tail(ms)))

\* C20: no entry of the table is written after init(), and whatever the
\* order of the calls on the two boards, each board is as after the
\* replay of its own move records alone.
C20_InterleavingIsReplay ==
  /\ threatsWritten = NothingWritten
  /\ \A i \in 1..2 : boards[i] = Replay(InitPgnBoard, played[i])

\* 1. e4 e5 on the first board and 1. Nf3 Nc6 on the second
C20_Witness ==
  /\ outcome = "ok"
  /\ played[1] = << [color |-> 1, moveValue |-> <<"e", "4">>],
                    [color |-> 0 - 1, moveValue |-> <<"e", "5">>] >>
  /\ played[2] = << [color |-> 1, moveValue |-> <<"N", "f", "3">>],
                    [color |-> 0 - 1, moveValue |-> <<"N", "c", "6">>] >>
  /\ boards[1].squares[Sq("e", "4")] = WPAWN
  /\ boards[2].squares[Sq("c", "6")] = BKNIGHT

(***************************************************************************)
(* The pin detector.                                                       *)
(***************************************************************************)
PinChecked == outcome = "pinchecked"

C22_PathIsEmpty ==
  (/\ Resolved
   /\ Abs(query.piece) \in {WBISHOP, WROOK, WQUEEN}
   /\ resolved \in 0..63)
  => \A x \in Between(resolved, coords(query.target)) : squares[x] = BLANK

\* C23: when exactly one piece of the kind can reach the target, a square
\* not held by the mover, and that piece is pinned, the call without a
\* qualifier gives the square of that piece.
C23_SoleCandidatePinned ==
  (/\ Resolved
   /\ query.qualifier = <<>>
   /\ squares[coords(query.target)] * query.piece <= 0
   /\ Cardinality(Reachers) = 1
   /\ PinnedReachers = Reachers)
  => resolved \in Reachers

\* the square has the column and the row that the characters of the
\* qualifier name
MatchesQualifier(p, qualifier) ==
  \A i \in 1..Len(qualifier) :
     qualifier[i] \in {Files[fileOf(p) + 1], Ranks[rankOf(p) + 1]}

\* C24: the square given by the resolver matches every character of the
\* qualifier, and a qualifier of two characters that names the square of
\* an unpinned piece of the kind that reaches the target, a square not
\* held by the mover, gives that square.
C24_QualifierHonoured ==
  Resolved =>
    /\ resolved \in 0..63 => MatchesQualifier(resolved, query.qualifier)
    /\ \A p \in Reachers \ PinnedReachers :
          (/\ query.qualifier = literal(p)
           /\ squares[coords(query.target)] * query.piece <= 0)
          => resolved = p

(***************************************************************************)
(* The table threats.                                                      *)
(***************************************************************************)
Loaded == outcome = "loaded"

\* the entry written and its target square
Rays == threats(query.target, query.piece)
RayTarget == coords(query.target)

\* all the squares of the rays, in the order of the table
RECURSIVE Flatten(_)
Flatten(rays) ==
  IF Len(rays) = 0 THEN <<>> ELSE Head(rays) \o Flatten(Tail(rays))

\* a piece of the kind on square from reaches square to on an empty board
ReachesOnEmpty(kind, from, to) ==
  \/ kind \in {WKNIGHT, WBISHOP, WROOK, WQUEEN}
     /\ CanReach([i \in 0..63 |-> BLANK], kind, from, to)
  \/ /\ kind = WKING
     /\ from # to
     /\ Abs(fileOf(from) - fileOf(to)) <= 1
     /\ Abs(rankOf(from) - rankOf(to)) <= 1

\* the ray leaves the target in one direction, its i-th square at distance
\* i, and ends on the edge of the board (or after one square for a king)
OneDirection(ray, kind, t) ==
  /\ Len(ray) > 0
  /\ \E df \in {0 - 1, 0, 1}, dr \in {0 - 1, 0, 1} :
        /\ <<df, dr>> # <<0, 0>>
        /\ \A i \in 1..Len(ray) :
              /\ ray[i] \in 0..63
              /\ fileOf(ray[i]) = fileOf(t) + i * df
              /\ rankOf(ray[i]) = rankOf(t) + i * dr
        /\ IF kind = WKING
             THEN Len(ray) = 1
             ELSE \/ fileOf(t) + (Len(ray) + 1) * df \notin 0..7
                  \/ rankOf(t) + (Len(ray) + 1) * dr \notin 0..7

\* C25: the rays of a knight, bishop, rook, queen or king hold, once each,
\* exactly the squares of the board from which the kind reaches the target
\* on an empty board; a ray of a bishop, rook or queen follows one
\* direction from the target to the edge in increasing distance, a ray of
\* a king has one square, and the knight has one ray.
C25_RaysOfPieces ==
  (Loaded /\ Abs(query.piece) # WPAWN) =>
    LET kind == Abs(query.piece)
        all == Flatten(Rays)
    IN  /\ \A i \in 1..Len(all) : all[i] \in 0..63
        /\ {all[i] : i \in 1..Len(all)}
             = {s \in 0..63 : ReachesOnEmpty(kind, s, RayTarget)}
        /\ \A i, j \in 1..Len(all) : all[i] = all[j] => i = j
        /\ kind = WKNIGHT => Len(Rays) = 1
        /\ kind # WKNIGHT =>
              \A n \in 1..Len(Rays) : OneDirection(Rays[n], kind, RayTarget)

\* a rook ray is loaded for a target on the last column
C25_Witness ==
  /\ Loaded
  /\ query.piece = WROOK
  /\ query.target = <<"h", "4">>
  /\ Len(Rays) = 3
  /\ Rays[3] = <<30, 29, 28, 27, 26, 25, 24>>

\* the colour of the pawn of the entry
PawnColor == IF query.piece > 0 THEN 1 ELSE 0 - 1

\* the target is on one of the two ranks no pawn of the colour moves to
Unreachable ==
  rankOf(RayTarget) \in (IF PawnColor = 1 THEN {0, 1} ELSE {6, 7})

\* the squares behind the target from where a pawn advances to it: one
\* rank behind, and two ranks behind for a target on the fourth rank of
\* the mover
AdvanceRay ==
  IF Unreachable THEN <<>>
  ELSE IF rankOf(RayTarget) = (IF PawnColor = 1 THEN 3 ELSE 4)
    THEN <<RayTarget - 8 * PawnColor, RayTarget - 16 * PawnColor>>
    ELSE <<RayTarget - 8 * PawnColor>>

\* one ray of one square for each adjacent column of the board
CaptureRays ==
  { <<x>> : x \in {y \in 0..63 :
                     /\ rankOf(y) = rankOf(RayTarget) - PawnColor
                     /\ Abs(fileOf(y) - fileOf(RayTarget)) = 1} }

\* first the advance ray, then the capture rays
AdvanceThenCaptures ==
  /\ Len(Rays) = 1 + Cardinality(CaptureRays)
  /\ Rays[1] = AdvanceRay
  /\ {Rays[n] : n \in 2..Len(Rays)} = CaptureRays

PawnLoaded == Loaded /\ Abs(query.piece) = WPAWN

PawnResolved ==
  /\ Resolved
  /\ Abs(query.piece) = WPAWN
  /\ rankOf(coords(query.target)) \notin (IF query.piece > 0 THEN {0, 1} ELSE {6, 7})

\* the squares behind the target, nearest first, from which a pawn of the
\* call advances to it
SquaresBehind ==
  LET t == coords(query.target)
      c == query.piece
  IN  IF rankOf(t) = (IF c > 0 THEN 3 ELSE 4)
        THEN <<t - 8 * c, t - 16 * c>>
        ELSE <<t - 8 * c>>

\* the squares from which a pawn of the call captures on the target
SquaresBeside ==
  LET t == coords(query.target)
  IN  {x \in 0..63 : /\ rankOf(x) = rankOf(t) - query.piece
                     /\ Abs(fileOf(x) - fileOf(t)) = 1}

\* the squares the claim names for the call that hold a pawn of the mover
PawnCandidates ==
  IF query.capture
    THEN {x \in SquaresBeside :
            /\ squares[x] = query.piece
            /\ Cardinality(SquaresBeside) = 2
                 => query.qualifier = <<Files[fileOf(x) + 1]>>}
    ELSE {SquaresBehind[i] : i \in {j \in 1..Len(SquaresBehind) :
            /\ squares[SquaresBehind[j]] = query.piece
            /\ \A k \in 1..(j - 1) : squares[SquaresBehind[k]] # query.piece}}

\* C27: a call without capture gives the nearest square behind the target
\* that holds a pawn of the mover; a capture gives the pawn beside the
\* target whose column is the qualifier, or the pawn on the only square
\* beside a target of an edge column; without such a pawn the result is
\* NoOrigin.
C27_PawnOrigin ==
  PawnResolved =>
    IF PawnCandidates = {}
      THEN resolved = NoOrigin
      ELSE resolved \in PawnCandidates

(***************************************************************************)
(* The frame of an ordinary move.                                          *)
(***************************************************************************)
\* the move record is neither castling, nor a promotion, nor a capture en
\* passant on the current board
IsOrdinary(m) ==
  /\ Groups(m).g6 = <<>>
  /\ ~IsPromotion(m)
  /\ ~(IsPawnCapture(m) /\ squares[coords(Groups(m).g4)] = BLANK)

\* the piece moved by the record, in the colour of the mover
Moved(m) == getPieceIndex(Groups(m).g1) * m.color

C29_NoOutOfRange ==
  [][(Called /\ MatchString(move'.moveValue)) => outcome' # "panic"]_vars

\* the squares and the king location after castling of the colour to the
\* king's side (short) or to the queen's side
Castled(color, short) ==
  LET rank == IF color = 1 THEN "1" ELSE "8"
      kingTo == Sq(IF short THEN "g" ELSE "c", rank)
  IN  /\ outcome' = "ok"
      /\ squares'[kingTo] = color * WKING
      /\ squares'[Sq(IF short THEN "f" ELSE "d", rank)] = color * WROOK
      /\ squares'[Sq("e", rank)] = BLANK
      /\ squares'[Sq(IF short THEN "h" ELSE "a", rank)] = BLANK
      /\ (IF color = 1 THEN wking' ELSE bking') = kingTo

\* the letter is one that getPieceIndex maps to a kind
Handled(letter) == ~pieceIndexFatal(letter)

\* C30: in a call for an accepted text the piece letter and the promotion
\* letter are letters that getPieceIndex maps to a kind, the call does not
\* end in getPieceIndex, and a text of the castling group is applied as
\* castling to the king's side (one hyphen-or-not step after the first O)
\* or to the queen's side (two steps).
C30_AcceptedIsHandled ==
  [][(Called /\ MatchString(move'.moveValue)) =>
       LET matches == Groups(move')
       IN  /\ Handled(matches.g1)
           /\ Len(matches.g5) > 0 => Handled(<<matches.g5[2]>>)
           /\ matches.g6 \in {<<"O", "-", "O">>, <<"O", "O">>}
                => Castled(move'.color, TRUE)
           /\ matches.g6 \in {<<"O", "-", "O", "-", "O">>, <<"O", "O", "O">>}
                => Castled(move'.color, FALSE)]_vars

====
